---- MODULE Spec2Model ----
(***************************************************************************)
(* A model of src/lucas_kanade.py: the pyramid builder, the dense and the  *)
(* fast Lucas-Kanade step, the image warper and the pyramidal refiner.     *)
(*                                                                         *)
(* Arrays are records [h, w, px] (numpy's shape and data, 0-based).        *)
(* Arithmetic is exact: integer pixels, and rationals <<n, d>> in lowest   *)
(* terms (d > 0) where the code divides.                                   *)
(***************************************************************************)
EXTENDS Integers, Sequences, FiniteSets, TLC

VARIABLES pc, fn, arg, loc, ret

vars == <<pc, fn, arg, loc, ret>>

(***************************************************************************)
(* Bounds of the inputs.                                                   *)
(***************************************************************************)
MaxDim == 3

MaxWin == 3

(***************************************************************************)
(* Program constants.                                                      *)
(***************************************************************************)
X_DERIVATIVE_FILTER == <<<<1, 0, -1>>, <<2, 0, -2>>, <<1, 0, -1>>>>

Y_DERIVATIVE_FILTER == <<<<1, 2, 1>>, <<0, 0, 0>>, <<-1, -2, -1>>>>

MAX_SHAPE == 200

\* TH = 0.03, kept as the fraction TH_NUM / TH_DEN
TH_NUM == 3

TH_DEN == 100

(***************************************************************************)
(* Exact arithmetic.                                                       *)
(***************************************************************************)
Abs(x) == IF x < 0 THEN -x ELSE x

Min(a, b) == IF a < b THEN a ELSE b

Max(a, b) == IF a > b THEN a ELSE b

RECURSIVE Gcd(_, _)
Gcd(a, b) == IF b = 0 THEN a ELSE Gcd(b, a % b)

Lcm(a, b) == (a \div Gcd(a, b)) * b

Rat(n, d) ==
  LET g == Gcd(Abs(n), Abs(d))
      s == IF d < 0 THEN -1 ELSE 1
  IN  <<(s * n) \div g, (s * d) \div g>>

Zero == <<0, 1>>

RInt(n) == <<n, 1>>

RAdd(a, b) ==
  LET d == Lcm(a[2], b[2])
  IN  Rat(a[1] * (d \div a[2]) + b[1] * (d \div b[2]), d)

RSub(a, b) ==
  LET d == Lcm(a[2], b[2])
  IN  Rat(a[1] * (d \div a[2]) - b[1] * (d \div b[2]), d)

RMul(a, b) == Rat(a[1] * b[1], a[2] * b[2])

RLt(a, b) == a[1] * b[2] < b[1] * a[2]

RFloor(a) == a[1] \div a[2]

RECURSIVE SumTo(_, _)
SumTo(f, n) == IF n = 0 THEN 0 ELSE f[n] + SumTo(f, n - 1)

Dot(a, b) == SumTo([k \in 1..Len(a) |-> a[k] * b[k]], Len(a))

(***************************************************************************)
(* Arrays.                                                                 *)
(***************************************************************************)
\* an h x w array with entries px[r][c]; comparing px with itself has TLC
\* tabulate it once rather than evaluate an entry anew on every access
Array(h, w, px) == [h |-> h, w |-> w, px |-> IF px = px THEN px ELSE px]

Shape(a) == <<a.h, a.w>>

\* (mutant) the output buffers start at one
ZerosAsOnes(h, w) ==
  Array(h, w, [r \in 0..(h - 1) |-> [c \in 0..(w - 1) |-> <<1, 1>>]])

\* np.zeros(shape), as a field of rationals
Zeros(h, w) == Array(h, w, [r \in 0..(h - 1) |-> [c \in 0..(w - 1) |-> Zero]])

\* boundary='symm': the index mirrored at the array's edge
SymIdx(i, n) == IF i < 0 THEN -1 - i ELSE IF i >= n THEN 2 * n - 1 - i ELSE i

\* signal.convolve2d(img, K, boundary='symm', mode='same') for a 3x3 kernel
convolve2d3(img, K) ==
  Array(img.h, img.w,
    [r \in 0..(img.h - 1) |-> [c \in 0..(img.w - 1) |->
       SumTo([k \in 1..9 |->
                K[((k - 1) \div 3) + 1][((k - 1) % 3) + 1]
                  * img.px[SymIdx(r + 1 - ((k - 1) \div 3), img.h)]
                          [SymIdx(c + 1 - ((k - 1) % 3), img.w)]], 9)]])

\* numpy broadcasting of two 2-D shapes
Broadcastable(a, b) ==
  /\ (a.h = b.h \/ a.h = 1 \/ b.h = 1)
  /\ (a.w = b.w \/ a.w = 1 \/ b.w = 1)

BcastAt(a, r, c) == a.px[IF a.h = 1 THEN 0 ELSE r][IF a.w = 1 THEN 0 ELSE c]

\* (mutant) the difference taken as a sum
SubtractAsAdd(I2, I1) ==
  LET h == Max(I1.h, I2.h)
      w == Max(I1.w, I2.w)
  IN  Array(h, w, [r \in 0..(h - 1) |-> [c \in 0..(w - 1) |->
                     BcastAt(I2, r, c) + BcastAt(I1, r, c)]])

\* I2 - I1 (defined when the shapes broadcast)
Subtract(I2, I1) ==
  LET h == Max(I1.h, I2.h)
      w == Max(I1.w, I2.w)
  IN  Array(h, w, [r \in 0..(h - 1) |-> [c \in 0..(w - 1) |->
                     BcastAt(I2, r, c) - BcastAt(I1, r, c)]])

\* X[r-b : r+b+1, c-b : c+b+1] flattened row-major; numpy cuts a slice at the
\* array's end, so the result may hold fewer than (2b+1)^2 entries
Window(X, r, c, b) ==
  LET nR == Max(0, Min(r + b + 1, X.h) - (r - b))
      nC == Max(0, Min(c + b + 1, X.w) - (c - b))
  IN  [k \in 1..(nR * nC) |->
         X.px[r - b + ((k - 1) \div nC)][c - b + ((k - 1) % nC)]]

(***************************************************************************)
(* lucas_kanade_step                                                       *)
(***************************************************************************)
\* (mutant) the solution without its minus sign
LeastSquaresPlus(A_Ix, A_Iy, b) ==
  LET sxx == Dot(A_Ix, A_Ix)
      sxy == Dot(A_Ix, A_Iy)
      syy == Dot(A_Iy, A_Iy)
      sxt == Dot(A_Ix, b)
      syt == Dot(A_Iy, b)
      det == sxx * syy - sxy * sxy
  IN  IF det = 0
      THEN <<Zero, Zero>>
      ELSE <<Rat(syy * sxt - sxy * syt, det),
             Rat(sxx * syt - sxy * sxt, det)>>

\* x = (-inv(A^T A)) A^T b, and (0, 0) when inv raises LinAlgError
LeastSquares(A_Ix, A_Iy, b) ==
  LET sxx == Dot(A_Ix, A_Ix)
      sxy == Dot(A_Ix, A_Iy)
      syy == Dot(A_Iy, A_Iy)
      sxt == Dot(A_Ix, b)
      syt == Dot(A_Iy, b)
      det == sxx * syy - sxy * sxy
  IN  IF det = 0
      THEN <<Zero, Zero>>
      ELSE <<Rat(-(syy * sxt - sxy * syt), det),
             Rat(-(sxx * syt - sxy * sxt), det)>>

\* range(boundary, n - boundary)
Interior(n, boundary) == boundary..(n - boundary - 1)

\* the number of entries of X[r-b : r+b+1, c-b : c+b+1]
WindowSize(X, r, c, b) ==
  Max(0, Min(r + b + 1, X.h) - (r - b)) * Max(0, Min(c + b + 1, X.w) - (c - b))

\* the reshape(squared_N) calls of one pixel succeed
ReshapeOk(Ix, Iy, It, r, c, boundary, squared_N) ==
  /\ WindowSize(Ix, r, c, boundary) = squared_N
  /\ WindowSize(Iy, r, c, boundary) = squared_N
  /\ WindowSize(It, r, c, boundary) = squared_N

Raised == [raised |-> TRUE]

lucas_kanade_step(I1, I2, window_size) ==
  IF ~Broadcastable(I1, I2) THEN Raised
  ELSE
  LET Ix == convolve2d3(I2, X_DERIVATIVE_FILTER)
      Iy == convolve2d3(I2, Y_DERIVATIVE_FILTER)
      It == Subtract(I2, I1)
      du0 == Zeros(I1.h, I1.w)
      dv0 == Zeros(I1.h, I1.w)
      boundary == window_size \div 2
      squared_N == window_size * window_size
      rows == Interior(I1.h, boundary)
      cols == Interior(I1.w, boundary)
      x == [r \in rows |-> [c \in cols |->
              LeastSquares(Window(Ix, r, c, boundary),
                           Window(Iy, r, c, boundary),
                           Window(It, r, c, boundary))]]
  IN  IF \E r \in rows, c \in cols :
           ~ReshapeOk(Ix, Iy, It, r, c, boundary, squared_N)
      THEN Raised
      ELSE [raised |-> FALSE,
            du |-> Array(I1.h, I1.w,
                     [r \in 0..(I1.h - 1) |-> [c \in 0..(I1.w - 1) |->
                        IF r \in rows /\ c \in cols
                        THEN x[r][c][1] ELSE du0.px[r][c]]]),
            dv |-> Array(I1.h, I1.w,
                     [r \in 0..(I1.h - 1) |-> [c \in 0..(I1.w - 1) |->
                        IF r \in rows /\ c \in cols
                        THEN x[r][c][2] ELSE dv0.px[r][c]]])]

(***************************************************************************)
(* faster_lucas_kanade_step                                                *)
(***************************************************************************)
ArrayMax(a) ==
  LET vals == {a.px[r][c] : r \in 0..(a.h - 1), c \in 0..(a.w - 1)}
  IN  CHOOSE m \in vals : \A x \in vals : x <= m

\* (mutant) the weak responses are not zeroed
cornerThresholdSkipped(response) == response

\* corners[corners < TH * corners.max()] = 0
cornerThreshold(response) ==
  LET top == ArrayMax(response)
  IN  Array(response.h, response.w,
        [r \in 0..(response.h - 1) |-> [c \in 0..(response.w - 1) |->
           IF response.px[r][c] * TH_DEN < TH_NUM * top
           THEN 0 ELSE response.px[r][c]]])

\* `response` stands for cv2.cornerHarris(I2, 5, 5, 0.05), read only in the
\* else branch
faster_lucas_kanade_step(I1, I2, window_size, response) ==
  LET du0 == Zeros(I1.h, I1.w)
      dv0 == Zeros(I1.h, I1.w)
  IN
  IF I1.h < MAX_SHAPE /\ I1.w < MAX_SHAPE
  THEN lucas_kanade_step(I1, I2, window_size)
  ELSE
  IF ~Broadcastable(I1, I2) THEN Raised
  ELSE
  LET Ix == convolve2d3(I2, X_DERIVATIVE_FILTER)
      Iy == convolve2d3(I2, Y_DERIVATIVE_FILTER)
      It == Subtract(I2, I1)
      boundary == window_size \div 2
      squared_N == window_size * window_size
      corners == cornerThreshold(response)
      rows == Interior(I1.h, boundary)
      cols == Interior(I1.w, boundary)
      \* corners[idx_row, idx_col] is an IndexError outside corners' shape
      indexOk == \A r \in rows, c \in cols : r < corners.h /\ c < corners.w
      picked == {rc \in rows \X cols : corners.px[rc[1]][rc[2]] # 0}
      x == [rc \in picked |->
              LeastSquares(Window(Ix, rc[1], rc[2], boundary),
                           Window(Iy, rc[1], rc[2], boundary),
                           Window(It, rc[1], rc[2], boundary))]
  IN  IF ~indexOk THEN Raised
      ELSE IF \E rc \in picked :
                ~ReshapeOk(Ix, Iy, It, rc[1], rc[2], boundary, squared_N)
      THEN Raised
      ELSE [raised |-> FALSE,
            du |-> Array(I1.h, I1.w,
                     [r \in 0..(I1.h - 1) |-> [c \in 0..(I1.w - 1) |->
                        IF <<r, c>> \in picked
                        THEN x[<<r, c>>][1] ELSE du0.px[r][c]]]),
            dv |-> Array(I1.h, I1.w,
                     [r \in 0..(I1.h - 1) |-> [c \in 0..(I1.w - 1) |->
                        IF <<r, c>> \in picked
                        THEN x[<<r, c>>][2] ELSE dv0.px[r][c]]])]

(***************************************************************************)
(* warp_image                                                              *)
(***************************************************************************)
\* cv2.resize, INTER_LINEAR: the source index and weight of destination
\* index d, for srcN source and dstN destination samples
ResizeCoord(d, srcN, dstN) ==
  LET fx == Rat((2 * d + 1) * srcN - dstN, 2 * dstN)
      sx == RFloor(fx)
  IN  IF sx < 0 THEN [i |-> 0, f |-> Zero]
      ELSE IF sx >= srcN - 1 THEN [i |-> srcN - 1, f |-> Zero]
      ELSE [i |-> sx, f |-> RSub(fx, RInt(sx))]

\* (1 - f) * a + f * b
Lerp(a, b, f) == RAdd(RMul(RSub(RInt(1), f), a), RMul(f, b))

\* cv2.resize(src, (w, h)) of an array of rationals
resize(src, w, h) ==
  Array(h, w,
    [r \in 0..(h - 1) |-> [c \in 0..(w - 1) |->
       LET y == ResizeCoord(r, src.h, h)
           x == ResizeCoord(c, src.w, w)
           y1 == Min(y.i + 1, src.h - 1)
           x1 == Min(x.i + 1, src.w - 1)
       IN  Lerp(Lerp(src.px[y.i][x.i], src.px[y.i][x1], x.f),
                Lerp(src.px[y1][x.i], src.px[y1][x1], x.f), y.f)]])

\* (mutant) the resized field keeps its values
TimesUnscaled(a, factor) == a

\* u * u_factor
Times(a, factor) ==
  Array(a.h, a.w,
    [r \in 0..(a.h - 1) |-> [c \in 0..(a.w - 1) |-> RMul(a.px[r][c], factor)]])

\* step 1 of warp_image: u and v resized to the image and scaled
WarpField(image, u, v) ==
  LET u_factor == Rat(image.w, u.w)
      v_factor == Rat(image.h, v.h)
  IN  [u |-> Times(resize(u, image.w, image.h), u_factor),
       v |-> Times(resize(v, image.w, image.h), v_factor)]

\* the cell of the pixel grid that holds coordinate q, of n samples
Cell(q, n) == Min(RFloor(q), n - 2)

InHull(image, qx, qy) ==
  /\ ~RLt(qx, Zero) /\ ~RLt(RInt(image.w - 1), qx)
  /\ ~RLt(qy, Zero) /\ ~RLt(RInt(image.h - 1), qy)

\* np.nan, kept apart from every rational by its zero denominator
NaN == <<0, 0>>

\* (mutant) the shift subtracted from the grid
QueryXMinus(c, shift) == RSub(RInt(c), shift)

\* x_mesh.flatten() + u.flatten()
QueryX(c, shift) == RAdd(RInt(c), shift)

\* (mutant) the mesh counted from one
QueryYFromOne(r, shift) == RAdd(RInt(r + 1), shift)

\* y_mesh.flatten() + v.flatten()
QueryY(r, shift) == RAdd(RInt(r), shift)

\* griddata(grid points, image.flatten(), (qx, qy), fill_value=np.nan):
\* linear interpolation in the triangle of the grid's triangulation that
\* holds (qx, qy), NaN outside the hull. Each grid cell is cut along one of
\* its two diagonals; diag tells which.
Sample(image, qx, qy, diag) ==
  IF ~InHull(image, qx, qy) THEN NaN
  ELSE
  LET x0 == Cell(qx, image.w)
      y0 == Cell(qy, image.h)
      fx == RSub(qx, RInt(x0))
      fy == RSub(qy, RInt(y0))
      a == RInt(image.px[y0][x0])
      b == RInt(image.px[y0][x0 + 1])
      c == RInt(image.px[y0 + 1][x0])
      d == RInt(image.px[y0 + 1][x0 + 1])
      one == RInt(1)
  IN  IF diag[<<y0, x0>>] = "anti"
      THEN IF ~RLt(one, RAdd(fx, fy))
           THEN RAdd(a, RAdd(RMul(fx, RSub(b, a)), RMul(fy, RSub(c, a))))
           ELSE RAdd(d, RAdd(RMul(RSub(one, fx), RSub(c, d)),
                             RMul(RSub(one, fy), RSub(b, d))))
      ELSE IF ~RLt(fx, fy)
           THEN RAdd(a, RAdd(RMul(fx, RSub(b, a)), RMul(fy, RSub(d, b))))
           ELSE RAdd(a, RAdd(RMul(fy, RSub(c, a)), RMul(fx, RSub(d, c))))

Cells(image) == (0..(image.h - 2)) \X (0..(image.w - 2))

\* the cells a query point falls strictly inside of: only there does the
\* triangulation's diagonal decide the sample
HitCells(image, field) ==
  LET Hit(r, c) ==
        LET qx == QueryX(c, field.u.px[r][c])
            qy == QueryY(r, field.v.px[r][c])
            x0 == Cell(qx, image.w)
            y0 == Cell(qy, image.h)
        IN  IF /\ InHull(image, qx, qy)
               /\ RSub(qx, RInt(x0)) \notin {Zero, RInt(1)}
               /\ RSub(qy, RInt(y0)) \notin {Zero, RInt(1)}
            THEN {<<y0, x0>>} ELSE {}
  IN  UNION {Hit(r, c) : r \in 0..(image.h - 1), c \in 0..(image.w - 1)}

\* The grid's points lie four by four on a circle, so its Delaunay
\* triangulation is not unique: each cell is cut along either diagonal. The
\* regular cuts are taken, all cells one way or the two ways alternating,
\* and only the cells hit tell them apart.
Triangulations(image, field) ==
  LET hit == HitCells(image, field)
  IN  {[cell \in Cells(image) |->
          IF cell \in hit /\ p[((cell[1] + cell[2]) % 2) + 1] THEN "anti" ELSE "main"] :
         p \in BOOLEAN \X BOOLEAN}

warp_image(image, u, v, diag) ==
  LET field == WarpField(image, u, v)
      image_warp ==
        [r \in 0..(image.h - 1) |-> [c \in 0..(image.w - 1) |->
           Sample(image, QueryX(c, field.u.px[r][c]),
                         QueryY(r, field.v.px[r][c]), diag)]]
  IN  Array(image.h, image.w,
        [r \in 0..(image.h - 1) |-> [c \in 0..(image.w - 1) |->
           IF image_warp[r][c] = NaN
           THEN RInt(image.px[r][c]) ELSE image_warp[r][c]]])

(***************************************************************************)
(* Inputs: black-and-white images that repeat a 2x2 tile, large images lit *)
(* on a lattice of period 3, and corner response maps that alternate two   *)
(* values.                                                                 *)
(***************************************************************************)
Tiles == [0..1 -> [0..1 -> {0, 1}]]

TileImage(h, w, t) ==
  Array(h, w, [r \in 0..(h - 1) |-> [c \in 0..(w - 1) |-> t[r % 2][c % 2]]])

Images(h, w) == {TileImage(h, w, t) : t \in Tiles}

SmallShapes == (1..MaxDim) \X (1..MaxDim)

\* shapes on either side of MAX_SHAPE
LargeShapes ==
  {<<MaxDim, MAX_SHAPE>>, <<MAX_SHAPE, MaxDim>>, <<1, MAX_SHAPE - 1>>}

\* one lit pixel every third row and column, moved diagonally by k
LatticeImage(h, w, k) ==
  Array(h, w, [r \in 0..(h - 1) |-> [c \in 0..(w - 1) |->
                 IF (r + k) % 3 = 0 /\ (c + k) % 3 = 0 THEN 1 ELSE 0]])

\* same-shape pairs of a tile with itself or with a tile dark at (1, 1), and
\* pairs of two shapes showing one tile
StepArgs(shapes) ==
  {[I1 |-> TileImage(q[1][1], q[1][2], q[3]),
    I2 |-> TileImage(q[2][1], q[2][2], q[4]),
    window_size |-> q[5]] :
     q \in {p \in shapes \X shapes \X Tiles \X Tiles \X (1..MaxWin) :
              /\ p[1] = p[2] \/ p[3] = p[4]
              /\ p[3] = p[4] \/ p[4][1][1] = 0}}

\* images with a dimension of MAX_SHAPE or more, where the fast step does not
\* delegate
FastArgs(shapes) ==
  {[I1 |-> LatticeImage(s[1], s[2], 0), I2 |-> LatticeImage(s[1], s[2], k),
    window_size |-> ws] :
     s \in shapes, k \in 0..2, ws \in 1..MaxWin}

\* responses on either side of the threshold, of a zero and of a non-zero
\* maximum
RespVals == {<<-1, 0>>, <<0, 0>>, <<3, 0>>, <<2, 100>>, <<3, 100>>, <<100, 100>>}

Responses(h, w) ==
  {Array(h, w, [r \in 0..(h - 1) |-> [c \in 0..(w - 1) |->
                  IF (r + c) % 2 = 0 THEN p[1] ELSE p[2]]]) : p \in RespVals}

None == [none |-> TRUE]

InitStep ==
  /\ pc = "call"
  /\ fn = "none"
  /\ arg \in StepArgs(SmallShapes) \cup FastArgs(LargeShapes)
  /\ loc = None
  /\ ret = None

LucasKanadeStep ==
  /\ pc = "call"
  /\ fn = "none"
  /\ LET out == lucas_kanade_step(arg.I1, arg.I2, arg.window_size)
     IN  /\ ret' = out
         /\ pc' = IF out.raised THEN "raise" ELSE "return"
  /\ fn' = "lucas_kanade_step"
  /\ UNCHANGED <<arg, loc>>

FasterLucasKanadeStep ==
  /\ pc = "call"
  /\ fn = "none"
  /\ \E response \in
          IF arg.I1.h < MAX_SHAPE /\ arg.I1.w < MAX_SHAPE
          THEN {None} ELSE Responses(arg.I2.h, arg.I2.w) :
       LET out == faster_lucas_kanade_step(arg.I1, arg.I2, arg.window_size,
                                           response)
       IN  /\ ret' = out
           /\ pc' = IF out.raised THEN "raise" ELSE "return"
           /\ loc' = [response |-> response]
  /\ fn' = "faster_lucas_kanade_step"
  /\ UNCHANGED arg

NextStep == LucasKanadeStep \/ FasterLucasKanadeStep

SpecStep == InitStep /\ [][NextStep]_vars

(***************************************************************************)
(* Calls of warp_image. The images have two rows and two columns at least: *)
(* griddata triangulates the pixel grid.                                   *)
(***************************************************************************)
MaxShift == 1

\* an image whose pixels all differ and are no linear ramp
SquareImage(h, w) ==
  Array(h, w, [r \in 0..(h - 1) |-> [c \in 0..(w - 1) |->
                 (r * w + c) * (r * w + c)]])

WarpImages(h, w) ==
  {SquareImage(h, w), TileImage(h, w, [i \in 0..1 |-> [j \in 0..1 |-> IF i = j THEN 1 ELSE 0]])}

\* a field that alternates the integers a and b
Field(h, w, a, b) ==
  Array(h, w, [r \in 0..(h - 1) |-> [c \in 0..(w - 1) |->
                 IF (r + c) % 2 = 0 THEN RInt(a) ELSE RInt(b)]])

\* the constant fields and the fields that alternate a and -a
Fields(h, w) ==
  UNION {{Field(h, w, a, a), Field(h, w, a, -a)} : a \in (-MaxShift)..MaxShift}

WarpShapes == (2..(MaxDim + 1)) \X (2..(MaxDim + 1))

\* a field has the image's shape or the shape of the next pyramid level
FieldShapes(h, w) == {<<h, w>>, <<(h + 1) \div 2, (w + 1) \div 2>>}

WarpArgs(shapes) ==
  UNION {
    {[image |-> img, u |-> fu, v |-> fv] :
       img \in WarpImages(s[1], s[2]),
       fu \in UNION {Fields(us[1], us[2]) : us \in FieldShapes(s[1], s[2])},
       fv \in UNION {Fields(vs[1], vs[2]) : vs \in FieldShapes(s[1], s[2])}} :
    s \in shapes}

InitWarp ==
  /\ pc = "call"
  /\ fn = "none"
  /\ arg \in WarpArgs(WarpShapes)
  /\ loc = None
  /\ ret = None

WarpImage ==
  /\ pc = "call"
  /\ fn = "none"
  /\ LET field == WarpField(arg.image, arg.u, arg.v)
     IN  \E diag \in Triangulations(arg.image, field) :
           /\ ret' = warp_image(arg.image, arg.u, arg.v, diag)
           /\ loc' = [field |-> field, diag |-> diag]
  /\ pc' = "return"
  /\ fn' = "warp_image"
  /\ UNCHANGED arg

NextWarp == WarpImage

SpecWarp == InitWarp /\ [][NextWarp]_vars

(***************************************************************************)
(* Properties of the two steps.                                            *)
(***************************************************************************)
SameShape(a, b) == a.h = b.h /\ a.w = b.w

Odd(n) == n % 2 = 1

AllZero(a) ==
  \A r \in 0..(a.h - 1), c \in 0..(a.w - 1) : a.px[r][c] = Zero

StepCalled(f) == fn = f /\ pc \in {"return", "raise"}

\* the sums of the normal equations of pixel (r, c), from the gradients
WindowSums(Ix, Iy, It, r, c, b) ==
  LET A_Ix == Window(Ix, r, c, b)
      A_Iy == Window(Iy, r, c, b)
      bb == Window(It, r, c, b)
  IN  [sxx |-> Dot(A_Ix, A_Ix), sxy |-> Dot(A_Ix, A_Iy),
       syy |-> Dot(A_Iy, A_Iy), sxt |-> Dot(A_Ix, bb), syt |-> Dot(A_Iy, bb)]

Det(m) == m.sxx * m.syy - m.sxy * m.sxy

\* (A^T A) x + A^T b = 0 for x = (xu, xv), two rationals
SolvesNormalEquations(m, xu, xv) ==
  /\ m.sxx * xu[1] * xv[2] + m.sxy * xv[1] * xu[2] + m.sxt * xu[2] * xv[2] = 0
  /\ m.sxy * xu[1] * xv[2] + m.syy * xv[1] * xu[2] + m.syt * xu[2] * xv[2] = 0

\* the pixels of a call whose window fits inside the image
Fits(r, c) ==
  /\ r \in Interior(arg.I1.h, arg.window_size \div 2)
  /\ c \in Interior(arg.I1.w, arg.window_size \div 2)

\* the thresholded corner response of pixel (r, c) is nonzero
KeptCorner(response, r, c) ==
  /\ response.px[r][c] # 0
  /\ response.px[r][c] * TH_DEN >= TH_NUM * ArrayMax(response)

Delegates == arg.I1.h < MAX_SHAPE /\ arg.I1.w < MAX_SHAPE

\* the pixels a call solves a window for
Solved(r, c) ==
  /\ Fits(r, c)
  /\ (fn = "faster_lucas_kanade_step" /\ ~Delegates)
        => KeptCorner(loc.response, r, c)

\* C1 as stated. Zero-motion identity: lucas_kanade_step(I, I, window_size)
\* returns all-zero du and dv for any image I and any window_size.
ZeroMotionAnyWindow ==
  (StepCalled("lucas_kanade_step") /\ arg.I1 = arg.I2)
     => (pc = "return" /\ AllZero(ret.du) /\ AllZero(ret.dv))

\* C1 amended. Zero-motion identity: for any image I and any odd
\* window_size, lucas_kanade_step(I, I, window_size) returns du and dv that
\* are zero at every pixel.
ZeroMotionOddWindow ==
  (StepCalled("lucas_kanade_step") /\ arg.I1 = arg.I2 /\ Odd(arg.window_size))
     => (pc = "return" /\ AllZero(ret.du) /\ AllZero(ret.dv))

\* a zero-motion call that solved an invertible window
ZeroMotionWitness ==
  /\ StepCalled("lucas_kanade_step")
  /\ pc = "return"
  /\ arg.I1 = arg.I2
  /\ Odd(arg.window_size)
  /\ LET Ix == convolve2d3(arg.I2, X_DERIVATIVE_FILTER)
         Iy == convolve2d3(arg.I2, Y_DERIVATIVE_FILTER)
         It == Subtract(arg.I2, arg.I1)
     IN  \E r \in 0..(arg.I1.h - 1), c \in 0..(arg.I1.w - 1) :
           /\ Fits(r, c)
           /\ Det(WindowSums(Ix, Iy, It, r, c, arg.window_size \div 2)) # 0

\* C2. Border invariant: after lucas_kanade_step returns, du and dv have the
\* shape of I1 and are zero at every pixel whose row or column lies within
\* floor(window_size / 2) of an image edge.
BorderInvariant ==
  (StepCalled("lucas_kanade_step") /\ pc = "return")
     => /\ Shape(ret.du) = Shape(arg.I1)
        /\ Shape(ret.dv) = Shape(arg.I1)
        /\ DOMAIN ret.du.px = 0..(arg.I1.h - 1)
        /\ DOMAIN ret.dv.px = 0..(arg.I1.h - 1)
        /\ \A r \in 0..(arg.I1.h - 1) :
             /\ DOMAIN ret.du.px[r] = 0..(arg.I1.w - 1)
             /\ DOMAIN ret.dv.px[r] = 0..(arg.I1.w - 1)
             /\ \A c \in 0..(arg.I1.w - 1) :
                  LET b == arg.window_size \div 2
                  IN  (r < b \/ r > arg.I1.h - 1 - b \/ c < b \/ c > arg.I1.w - 1 - b)
                        => (ret.du.px[r][c] = Zero /\ ret.dv.px[r][c] = Zero)

\* a returned call with a border and a nonzero displacement inside it
BorderWitness ==
  /\ StepCalled("lucas_kanade_step")
  /\ pc = "return"
  /\ SameShape(arg.I1, arg.I2)
  /\ arg.window_size \div 2 >= 1
  /\ \E r \in 0..(arg.I1.h - 1), c \in 0..(arg.I1.w - 1) :
       Fits(r, c) /\ ret.du.px[r][c] # Zero /\ ret.dv.px[r][c] # Zero

FastMatchesDense ==
  (StepCalled("faster_lucas_kanade_step") /\ pc = "return"
     /\ SameShape(arg.I1, arg.I2))
     => LET dense == lucas_kanade_step(arg.I1, arg.I2, arg.window_size)
        IN  \A r \in 0..(arg.I1.h - 1), c \in 0..(arg.I1.w - 1) :
              IF Delegates \/ (KeptCorner(loc.response, r, c) /\ Fits(r, c))
              THEN /\ ~dense.raised
                   /\ ret.du.px[r][c] = dense.du.px[r][c]
                   /\ ret.dv.px[r][c] = dense.dv.px[r][c]
              ELSE ret.du.px[r][c] = Zero /\ ret.dv.px[r][c] = Zero

\* a fast call on a large image that solved a corner pixel to a nonzero
\* displacement and left at zero a pixel the dense step moves
FastWitness ==
  /\ StepCalled("faster_lucas_kanade_step")
  /\ pc = "return"
  /\ SameShape(arg.I1, arg.I2)
  /\ ~Delegates
  /\ LET dense == lucas_kanade_step(arg.I1, arg.I2, arg.window_size)
     IN  /\ ~dense.raised
         /\ \E r \in 0..(arg.I1.h - 1), c \in 0..(arg.I1.w - 1) :
              /\ Fits(r, c)
              /\ KeptCorner(loc.response, r, c)
              /\ (ret.du.px[r][c] # Zero \/ ret.dv.px[r][c] # Zero)
         /\ \E r \in 0..(arg.I1.h - 1), c \in 0..(arg.I1.w - 1) :
              /\ Fits(r, c)
              /\ loc.response.px[r][c] # 0
              /\ ~KeptCorner(loc.response, r, c)
              /\ (dense.du.px[r][c] # Zero \/ dense.dv.px[r][c] # Zero)

(***************************************************************************)
(* Properties of warp_image                                                *)
(***************************************************************************)
WarpCalled == pc = "return" /\ fn = "warp_image"

Constant(a, k) ==
  \A r \in 0..(a.h - 1), c \in 0..(a.w - 1) : a.px[r][c] = RInt(k)

\* image displaced by dx columns and dy rows, pixels whose source falls off
\* the grid keeping their own value
Displaced(image, dx, dy) ==
  Array(image.h, image.w,
    [r \in 0..(image.h - 1) |-> [c \in 0..(image.w - 1) |->
       IF r + dy \in 0..(image.h - 1) /\ c + dx \in 0..(image.w - 1)
       THEN RInt(image.px[r + dy][c + dx]) ELSE RInt(image.px[r][c])]])

RescaleLaw ==
  WarpCalled =>
    /\ SameShape(loc.field.u, arg.image) /\ SameShape(loc.field.v, arg.image)
    /\ \A a, b \in (-MaxShift)..MaxShift :
         (Constant(arg.u, a) /\ Constant(arg.v, b)) =>
           LET dx == Rat(a * arg.image.w, arg.u.w)
               dy == Rat(b * arg.image.h, arg.v.h)
           IN  /\ \A r \in 0..(arg.image.h - 1), c \in 0..(arg.image.w - 1) :
                    /\ loc.field.u.px[r][c] = dx
                    /\ loc.field.v.px[r][c] = dy
               /\ (dx[2] = 1 /\ dy[2] = 1)
                    => ret = Displaced(arg.image, dx[1], dy[1])
               /\ (2 * arg.u.w = arg.image.w /\ 2 * arg.v.h = arg.image.h)
                    => ret = Displaced(arg.image, 2 * a, 2 * b)

RescaleWitness ==
  /\ WarpCalled
  /\ arg.image = SquareImage(4, 4)
  /\ Shape(arg.u) = <<2, 2>> /\ Shape(arg.v) = <<2, 2>>
  /\ Constant(arg.u, 1) /\ Constant(arg.v, -1)
  /\ ret.px[2][1] = RInt(arg.image.px[0][3])

\* C9 (as stated): a call to warp_image whose u and v differ in shape is
\* rejected with an error.
ShapeMismatchRejected ==
  (fn = "warp_image" /\ ~SameShape(arg.u, arg.v)) => pc = "raise"

(***************************************************************************)
(* build_pyramid: pixels are rationals <<n, d>>                            *)
(***************************************************************************)
MaxLevels == 2

\* 256 * PYRAMID_FILTER
PYRAMID_FILTER == <<<<1, 4, 6, 4, 1>>,
                    <<4, 16, 24, 16, 4>>,
                    <<6, 24, 36, 24, 6>>,
                    <<4, 16, 24, 16, 4>>,
                    <<1, 4, 6, 4, 1>>>>

PYRAMID_FILTER_DEN == 256

RECURSIVE LcmOf(_)
LcmOf(S) ==
  IF S = {} THEN 1
  ELSE LET d == CHOOSE x \in S : TRUE IN Lcm(d, LcmOf(S \ {d}))

\* signal.convolve2d(image, PYRAMID_FILTER, boundary='symm', mode='same'):
\* the numerators are summed over a common denominator
convolve2d5(image) ==
  LET den == LcmOf({image.px[r][c][2] :
                       r \in 0..(image.h - 1), c \in 0..(image.w - 1)})
      num == [r \in 0..(image.h - 1) |-> [c \in 0..(image.w - 1) |->
                image.px[r][c][1] * (den \div image.px[r][c][2])]]
      row(r, c, i) ==
        SumTo([j \in 1..5 |->
          PYRAMID_FILTER[i][j]
            * num[SymIdx(r + 3 - i, image.h)][SymIdx(c + 3 - j, image.w)]], 5)
  IN  Array(image.h, image.w,
        [r \in 0..(image.h - 1) |-> [c \in 0..(image.w - 1) |->
           Rat(SumTo([i \in 1..5 |-> row(r, c, i)], 5),
               PYRAMID_FILTER_DEN * den)]])

\* (mutant) every second entry counted from the second one
DecimateOdd(a) ==
  Array(a.h \div 2, a.w \div 2,
    [r \in 0..((a.h \div 2) - 1) |-> [c \in 0..((a.w \div 2) - 1) |->
       a.px[2 * r + 1][2 * c + 1]]])

\* blur_level[::2, ::2]
Decimate(a) ==
  Array((a.h + 1) \div 2, (a.w + 1) \div 2,
    [r \in 0..(((a.h + 1) \div 2) - 1) |-> [c \in 0..(((a.w + 1) \div 2) - 1) |->
       a.px[2 * r][2 * c]]])

RECURSIVE build_pyramid(_, _)
build_pyramid(image, num_levels) ==
  IF num_levels <= 0 THEN <<image>>
  ELSE LET pyramid == build_pyramid(image, num_levels - 1)
       IN  Append(pyramid, Decimate(convolve2d5(pyramid[num_levels])))

(***************************************************************************)
(* Calls of build_pyramid                                                  *)
(***************************************************************************)
\* an integer image as an array of rationals
AsRational(image) ==
  Array(image.h, image.w,
    [r \in 0..(image.h - 1) |-> [c \in 0..(image.w - 1) |->
       RInt(image.px[r][c])]])

RECURSIVE HalvedTimes(_, _)
HalvedTimes(n, k) == IF k = 0 THEN n ELSE HalvedTimes((n + 1) \div 2, k - 1)

\* every level that is blurred has two rows and two columns at least, so
\* that one reflection brings each tap of the filter back onto the image
Blurrable(h, w, num_levels) ==
  \A k \in 0..(num_levels - 1) :
     HalvedTimes(h, k) >= 2 /\ HalvedTimes(w, k) >= 2

\* an image of seven grey levels
MottledImage(h, w) ==
  Array(h, w, [r \in 0..(h - 1) |-> [c \in 0..(w - 1) |->
                 ((r * w + c) * (r * w + c)) % 7]])

PyramidShapes == (1..(MaxDim + 2)) \X (1..(MaxDim + 2))

PyramidArgs(shapes) ==
  UNION {
    {[image |-> AsRational(img), num_levels |-> n] :
       img \in {MottledImage(s[1], s[2])} \cup Images(s[1], s[2]),
       n \in {k \in (-1)..MaxLevels : Blurrable(s[1], s[2], k)}} :
    s \in shapes}

InitPyramid ==
  /\ pc = "call"
  /\ fn = "none"
  /\ arg \in PyramidArgs(PyramidShapes)
  /\ loc = None
  /\ ret = None

BuildPyramid ==
  /\ pc = "call"
  /\ fn = "none"
  /\ ret' = build_pyramid(arg.image, arg.num_levels)
  /\ pc' = "return"
  /\ fn' = "build_pyramid"
  /\ UNCHANGED <<arg, loc>>

NextPyramid == BuildPyramid

SpecPyramid == InitPyramid /\ [][NextPyramid]_vars

(***************************************************************************)
(* Properties of build_pyramid                                             *)
(***************************************************************************)
PyramidBuilt == pc = "return" /\ fn = "build_pyramid"

\* ceil(n / 2)
CeilHalf(n) == IF n % 2 = 0 THEN n \div 2 ELSE (n \div 2) + 1

Pixels(a) == {a.px[r][c] : r \in 0..(a.h - 1), c \in 0..(a.w - 1)}

\* the binomial weights 1 4 6 4 1 of the filter's rows and columns
Binomial(k) == CASE Abs(k) = 0 -> 6 [] Abs(k) = 1 -> 4 [] OTHER -> 1

\* the blurred pixel (r, c) of a: the weighted mean of the 25 pixels around
\* it, the image mirrored at its edges
Blurred(a, r, c) ==
  LET Mirror(i, n) == IF i < 0 THEN -i - 1 ELSE IF i > n - 1 THEN 2 * n - i - 1 ELSE i
      Weighted(dr, dc) ==
        RMul(Rat(Binomial(dr) * Binomial(dc), 256),
             a.px[Mirror(r + dr, a.h)][Mirror(c + dc, a.w)])
      RowSum(dr) ==
        RAdd(Weighted(dr, -2), RAdd(Weighted(dr, -1), RAdd(Weighted(dr, 0),
             RAdd(Weighted(dr, 1), Weighted(dr, 2)))))
  IN  RAdd(RowSum(-2), RAdd(RowSum(-1), RAdd(RowSum(0),
           RAdd(RowSum(1), RowSum(2)))))

\* C5: build_pyramid returns num_levels + 1 images, level 0 equal to the
\* input image, each level k+1 of height ceil(height_k / 2) and width
\* ceil(width_k / 2), its pixel (i, j) the blurred level-k pixel (2i, 2j).
PyramidShapeLaw ==
  (PyramidBuilt /\ arg.num_levels >= 0) =>
    /\ Len(ret) = arg.num_levels + 1
    /\ ret[1] = arg.image
    /\ \A k \in 1..arg.num_levels :
         /\ ret[k + 1].h = CeilHalf(ret[k].h)
         /\ ret[k + 1].w = CeilHalf(ret[k].w)
         /\ \A i \in 0..(ret[k + 1].h - 1), j \in 0..(ret[k + 1].w - 1) :
              ret[k + 1].px[i][j] = Blurred(ret[k], 2 * i, 2 * j)

PyramidWitness ==
  /\ PyramidBuilt
  /\ arg.num_levels = 2
  /\ arg.image = AsRational(MottledImage(5, 3))
  /\ Len(ret) = 3
  /\ Shape(ret[2]) = <<3, 2>>
  /\ Shape(ret[3]) = <<2, 1>>
  /\ ret[3].px[0][0] # ret[3].px[1][0]

(***************************************************************************)
(* lucas_kanade_optical_flow and faster_lucas_kanade_optical_flow, a step  *)
(* at a time. Images are carried by their shapes <<rows, columns>>, the    *)
(* fields u and v by their values; a call of the estimator yields some     *)
(* field of the shape of its first image, zero on the border the window    *)
(* leaves out.                                                             *)
(***************************************************************************)
MaxIter == 2

RECURSIVE Pow2(_)
Pow2(n) == IF n <= 0 THEN 1 ELSE 2 * Pow2(n - 1)

\* int(np.ceil(n / d))
CeilDiv(n, d) == (n + d - 1) \div d

\* (mutant) the factors rounded down
IMAGE_SIZE_Floor(shape, num_levels) ==
  <<(shape[2] \div Pow2(num_levels)) * Pow2(num_levels),
    (shape[1] \div Pow2(num_levels)) * Pow2(num_levels)>>

\* (w_factor * 2 ** num_levels, h_factor * 2 ** num_levels)
IMAGE_SIZE(shape, num_levels) ==
  LET h_factor == CeilDiv(shape[1], Pow2(num_levels))
      w_factor == CeilDiv(shape[2], Pow2(num_levels))
  IN  <<w_factor * Pow2(num_levels), h_factor * Pow2(num_levels)>>

\* if I.shape != IMAGE_SIZE: I = cv2.resize(I, IMAGE_SIZE), whose second
\* argument is (width, height)
Resized(shape, size) == IF shape # size THEN <<size[2], size[1]>> ELSE shape

\* the shapes of the levels of build_pyramid(image, num_levels)
RECURSIVE build_pyramid_shapes(_, _)
build_pyramid_shapes(shape, num_levels) ==
  IF num_levels <= 0 THEN <<shape>>
  ELSE LET pyramid == build_pyramid_shapes(shape, num_levels - 1)
           below == pyramid[num_levels]
       IN  Append(pyramid, <<(below[1] + 1) \div 2, (below[2] + 1) \div 2>>)

\* (mutant) the zeros laid out with rows and columns exchanged
ZeroFieldTransposed(shape) ==
  [h |-> shape[2], w |-> shape[1],
   px |-> [r \in 0..(shape[2] - 1) |-> [c \in 0..(shape[1] - 1) |-> Zero]]]

\* np.zeros(shape) as a field
ZeroField(shape) ==
  Array(shape[1], shape[2],
    [r \in 0..(shape[1] - 1) |-> [c \in 0..(shape[2] - 1) |-> Zero]])

\* u + du
Plus(a, b) ==
  Array(a.h, a.w,
    [r \in 0..(a.h - 1) |-> [c \in 0..(a.w - 1) |->
       RAdd(a.px[r][c], b.px[r][c])]])

\* the estimator raises when It = I2 - I1 cannot be broadcast, and when a
\* window is cut whose slice does not reshape to window_size ** 2 entries;
\* whether the fast estimator cuts one on a large image hangs on the corners
\* it keeps
EstimatorRaises(f, I1, I2, window_size) ==
  LET boundary == window_size \div 2
      cuts == /\ Interior(I1[1], boundary) # {}
              /\ Interior(I1[2], boundary) # {}
              /\ (2 * boundary + 1) * (2 * boundary + 1) # window_size * window_size
  IN  IF \E i \in 1..2 : I1[i] # I2[i] /\ I1[i] # 1 /\ I2[i] # 1
      THEN {TRUE}
      ELSE IF f = "faster_lucas_kanade_optical_flow"
              /\ ~(I1[1] < MAX_SHAPE /\ I1[2] < MAX_SHAPE)
           THEN IF cuts THEN BOOLEAN ELSE {FALSE}
           ELSE {cuts}

\* a field the estimator may return: np.zeros(I1.shape) with a written to
\* the pixels inside the border
Estimate(shape, window_size, a) ==
  LET boundary == window_size \div 2
  IN  Array(shape[1], shape[2],
        [r \in 0..(shape[1] - 1) |-> [c \in 0..(shape[2] - 1) |->
           IF r \in Interior(shape[1], boundary) /\ c \in Interior(shape[2], boundary)
           THEN RInt(a) ELSE Zero]])

\* the values (du, dv) an estimator call writes
FlowSteps == {<<0, 0>>, <<1, -1>>}

FlowShapes == (2..(MaxDim + 2)) \X (2..(MaxDim + 2))

\* the coarsest level keeps two rows and two columns, as the warp's
\* triangulation needs
FlowArgs(shapes) ==
  {a \in [I1 : shapes, I2 : shapes, window_size : 1..MaxWin,
          max_iter : 0..MaxIter, num_levels : 0..MaxLevels] :
     /\ a.I2 \in {a.I1, <<a.I1[2], a.I1[1]>>}
     /\ CeilDiv(a.I1[1], Pow2(a.num_levels)) >= 2
     /\ CeilDiv(a.I1[2], Pow2(a.num_levels)) >= 2}

InitFlow ==
  /\ pc = "call"
  /\ fn = "none"
  /\ arg \in FlowArgs(FlowShapes)
  /\ loc = None
  /\ ret = None

\* lines 237-250 and 464-475: resize to IMAGE_SIZE, build both pyramids,
\* start u and v as zeros of the smallest level's shape. steps, warps,
\* visited and added keep the history of the call: the estimator calls and
\* warps made, the levels entered, the corrections written at each level
Enter(f) ==
  /\ pc = "call"
  /\ fn = "none"
  /\ LET size == IMAGE_SIZE(arg.I1, arg.num_levels)
         I1 == Resized(arg.I1, size)
         I2 == Resized(arg.I2, size)
         pyramid_I1 == build_pyramid_shapes(I1, arg.num_levels)
         pyarmid_I2 == build_pyramid_shapes(I2, arg.num_levels)
     IN  loc' = [I1 |-> I1, I2 |-> I2,
                 pyramid_I1 |-> pyramid_I1, pyarmid_I2 |-> pyarmid_I2,
                 u |-> ZeroField(pyarmid_I2[Len(pyarmid_I2)]),
                 v |-> ZeroField(pyarmid_I2[Len(pyarmid_I2)]),
                 pyramid_level |-> Len(pyarmid_I2) - 1,
                 iter_num |-> 0, cur_I2 |-> <<0, 0>>,
                 steps |-> 0, warps |-> 0, visited |-> <<>>,
                 added |-> [k \in 0..arg.num_levels |-> <<0, 0>>]]
  /\ pc' = "level"
  /\ fn' = f
  /\ UNCHANGED <<arg, ret>>

LucasKanadeOpticalFlow == Enter("lucas_kanade_optical_flow")

FasterLucasKanadeOpticalFlow == Enter("faster_lucas_kanade_optical_flow")

\* cur_I2 = warp_image(pyarmid_I2[pyramid_level], u, v) at the head of a
\* level: the result has the image's shape
WarpLevel ==
  /\ pc = "level"
  /\ loc' = [loc EXCEPT !.cur_I2 = loc.pyarmid_I2[loc.pyramid_level + 1],
                        !.iter_num = 0,
                        !.warps = @ + 1,
                        !.visited = Append(@, loc.pyramid_level)]
  /\ pc' = "iter"
  /\ UNCHANGED <<fn, arg, ret>>

\* (mutant) the inner loop left after its first pass
LoopDoneEarly == loc.iter_num = arg.max_iter \/ loc.iter_num = 1

\* for iter_num in range(max_iter) has run out
LoopDone == loc.iter_num = arg.max_iter

\* one pass of the inner loop: an estimator step on the level's I1 and
\* cur_I2, added to u and v, then the warp again
Iterate ==
  /\ pc = "iter"
  /\ ~LoopDone
  /\ LET shape == loc.pyramid_I1[loc.pyramid_level + 1]
     IN  \E raised \in EstimatorRaises(fn, shape, loc.cur_I2, arg.window_size) :
           IF raised
           THEN /\ pc' = "raise"
                /\ loc' = [loc EXCEPT !.steps = @ + 1]
           ELSE /\ pc' = "iter"
                /\ \E d \in FlowSteps :
                     loc' = [loc EXCEPT
                       !.u = Plus(@, Estimate(shape, arg.window_size, d[1])),
                       !.v = Plus(@, Estimate(shape, arg.window_size, d[2])),
                       !.cur_I2 = loc.pyarmid_I2[loc.pyramid_level + 1],
                       !.iter_num = @ + 1,
                       !.steps = @ + 1,
                       !.warps = @ + 1,
                       !.added[loc.pyramid_level] = <<@[1] + d[1], @[2] + d[2]>>]
  /\ UNCHANGED <<fn, arg, ret>>

\* (mutant) the field resized and its values kept
upsampleUnscaled(field, dim) == resize(field, dim[1], dim[2])

\* 2 * cv2.resize(u, dim)
upsample(field, dim) == Times(resize(field, dim[1], dim[2]), RInt(2))

\* if pyramid_level: u = 2 * cv2.resize(u, dim), v likewise, dim the
\* (width, height) of the next finer level of pyramid_I1
Upsample ==
  /\ pc = "iter"
  /\ LoopDone
  /\ loc.pyramid_level > 0
  /\ LET finer == loc.pyramid_I1[loc.pyramid_level]
         dim == <<finer[2], finer[1]>>
     IN  loc' = [loc EXCEPT
           !.u = upsample(@, dim),
           !.v = upsample(@, dim),
           !.pyramid_level = @ - 1]
  /\ pc' = "level"
  /\ UNCHANGED <<fn, arg, ret>>

\* return u, v
Return ==
  /\ pc = "iter"
  /\ LoopDone
  /\ loc.pyramid_level = 0
  /\ ret' = [u |-> loc.u, v |-> loc.v]
  /\ pc' = "return"
  /\ UNCHANGED <<fn, arg, loc>>

NextFlow ==
  \/ LucasKanadeOpticalFlow
  \/ FasterLucasKanadeOpticalFlow
  \/ WarpLevel
  \/ Iterate
  \/ Upsample
  \/ Return

SpecFlow == InitFlow /\ [][NextFlow]_vars

(***************************************************************************)
(* Properties of the refiners                                              *)
(***************************************************************************)
InFlow ==
  /\ fn \in {"lucas_kanade_optical_flow", "faster_lucas_kanade_optical_flow"}
  /\ pc # "call"

\* the least multiple of m that is no less than n
RoundUp(n, m) == CHOOSE x \in n..(n + m - 1) : x % m = 0

FlowPre == arg.I1 = arg.I2 /\ Odd(arg.window_size)

\* the levels visited so far are L, L-1, ... in this order
Descending ==
  \A i \in 1..Len(loc.visited) : loc.visited[i] = arg.num_levels - i + 1

\* the estimator calls and warps made so far: max_iter calls at every level
\* left behind and iter_num at the one being processed, and one warp more
\* than calls at every level entered
Counted ==
  /\ loc.iter_num \in 0..arg.max_iter
  /\ pc = "level" =>
       /\ Len(loc.visited) = arg.num_levels - loc.pyramid_level
       /\ loc.steps = Len(loc.visited) * arg.max_iter
  /\ pc \in {"iter", "return"} =>
       /\ Len(loc.visited) = arg.num_levels - loc.pyramid_level + 1
       /\ loc.steps = (Len(loc.visited) - 1) * arg.max_iter + loc.iter_num
  /\ loc.warps = loc.steps + Len(loc.visited)

Finished ==
  /\ pc = "return"
  /\ Len(loc.visited) = arg.num_levels + 1
  /\ loc.steps = (arg.num_levels + 1) * arg.max_iter
  /\ loc.warps = (arg.num_levels + 1) * (arg.max_iter + 1)

\* the steps between a state and the return: a warp, max_iter passes and an
\* upsample or the return at every level still to do, and the entry
StepsLeft ==
  CASE pc = "call" -> (arg.num_levels + 1) * (arg.max_iter + 2) + 1
    [] pc = "level" -> (loc.pyramid_level + 1) * (arg.max_iter + 2)
    [] pc = "iter" -> loc.pyramid_level * (arg.max_iter + 2)
                        + (arg.max_iter - loc.iter_num) + 1
    [] OTHER -> 0

\* the state has a next step: the refiner is entered, warps at the head of
\* a level, makes a pass, moves to the finer level or returns
Ready ==
  \/ pc = "call" /\ fn = "none"
  \/ pc = "level"
  \/ pc = "iter" /\ loc.iter_num < arg.max_iter
  \/ pc = "iter" /\ loc.iter_num = arg.max_iter /\ loc.pyramid_level >= 0

CornersDoubled(a, b) ==
  /\ b.px[0][0] = RMul(RInt(2), a.px[0][0])
  /\ b.px[0][b.w - 1] = RMul(RInt(2), a.px[0][a.w - 1])
  /\ b.px[b.h - 1][0] = RMul(RInt(2), a.px[a.h - 1][0])
  /\ b.px[b.h - 1][b.w - 1] = RMul(RInt(2), a.px[a.h - 1][a.w - 1])

\* b is a with d or nothing added at each entry
AddedTo(a, b, d) ==
  /\ SameShape(a, b)
  /\ \A r \in 0..(a.h - 1), c \in 0..(a.w - 1) :
       RSub(b.px[r][c], a.px[r][c]) \in {Zero, RInt(d)}

\* the corrections written at all levels, those of level k counted 2^k times
Contributed(i) ==
  SumTo([k \in 1..(arg.num_levels + 1) |-> Pow2(k - 1) * loc.added[k - 1][i]],
        arg.num_levels + 1)

\* C12: the field's values are doubled exactly at each step from a level to
\* the next finer one, L times in all and never after level 0; every other
\* step leaves them alone or adds the estimator's correction to them; so a
\* correction c written at level k stands as c * 2^k in the returned field
\* (checked entry by entry for corrections that cover the whole field, which
\* is window_size 1).
FieldScaling ==
  /\ [][(pc # "call" /\ InFlow) =>
          IF pc = "iter" /\ pc' = "level"
          THEN /\ loc.pyramid_level' = loc.pyramid_level - 1
               /\ CornersDoubled(loc.u, loc.u') /\ CornersDoubled(loc.v, loc.v')
          ELSE /\ loc.pyramid_level' = loc.pyramid_level
               /\ IF pc = "iter" /\ pc' = "iter"
                  THEN \E d \in FlowSteps :
                         AddedTo(loc.u, loc.u', d[1]) /\ AddedTo(loc.v, loc.v', d[2])
                  ELSE loc.u' = loc.u /\ loc.v' = loc.v]_vars
  /\ []((InFlow /\ pc = "return") =>
          /\ loc.pyramid_level = 0
          /\ Len(loc.visited) = arg.num_levels + 1
          /\ ret.u = loc.u /\ ret.v = loc.v
          /\ arg.window_size = 1 =>
               (Constant(ret.u, Contributed(1)) /\ Constant(ret.v, Contributed(2))))

FieldScalingWitness ==
  /\ pc = "return"
  /\ fn = "lucas_kanade_optical_flow"
  /\ arg.window_size = 1 /\ arg.num_levels = 2 /\ arg.max_iter = 2
  /\ loc.added[2] = <<2, -2>> /\ loc.added[1] = <<1, -1>> /\ loc.added[0] = <<0, 0>>
  /\ ret.u.px[3][3] = RInt(10)
  /\ ret.v.px[3][3] = RInt(-10)

\* the shape of the images of the level being processed
LevelShape == loc.pyramid_I1[loc.pyramid_level + 1]

MaxFrames == 3

\* a[boarder:-boarder] along an axis of n entries; a[0:-0] is a[0:0]
Slice(n, boarder) == IF boarder = 0 THEN {} ELSE boarder..(n - boarder - 1)

\* f[lo] + ... + f[hi], summed by halves
RECURSIVE RSum(_, _, _)
RSum(f, lo, hi) ==
  IF hi < lo THEN Zero
  ELSE IF lo = hi THEN f[lo]
  ELSE LET mid == (lo + hi) \div 2
       IN  RAdd(RSum(f, lo, mid), RSum(f, mid + 1, hi))

\* np.mean(a[rows, cols]), nan on an empty slice
Mean(a, rows, cols) ==
  LET n == Cardinality(rows)
      m == Cardinality(cols)
      r0 == CHOOSE r \in rows : \A x \in rows : r <= x
      c0 == CHOOSE c \in cols : \A x \in cols : c <= x
  IN  IF n * m = 0 THEN NaN
      ELSE RMul(RSum([k \in 1..(n * m) |->
                        a.px[r0 + ((k - 1) \div m)][c0 + ((k - 1) % m)]], 1, n * m),
                Rat(1, n * m))

\* a[rows, cols] = value
Assign(a, rows, cols, value) ==
  Array(a.h, a.w,
    [r \in 0..(a.h - 1) |-> [c \in 0..(a.w - 1) |->
       IF r \in rows /\ c \in cols THEN value ELSE a.px[r][c]]])

\* (mutant) the previous frames' field dropped
AccumulateNone(u, prev_u) == u

\* u = u + prev_u
Accumulate(u, prev_u) == Plus(u, prev_u)

\* cv2.resize(frame, (w, h)) of a uint8 frame: rounded to the nearest integer
resize_uint8(src, w, h) ==
  LET out == resize(AsRational(src), w, h)
  IN  Array(h, w,
        [r \in 0..(h - 1) |-> [c \in 0..(w - 1) |->
           RFloor(RAdd(out.px[r][c], <<1, 2>>))]])

\* a.astype(np.uint8) of an array of non-negative rationals
astype_uint8(a) ==
  Array(a.h, a.w,
    [r \in 0..(a.h - 1) |-> [c \in 0..(a.w - 1) |-> RFloor(a.px[r][c]) % 256]])

\* the frame handed to out_cap.write: the first driver casts the warped frame
\* to uint8 and resizes it to the video's (w, h), the faster one resizes it
\* and then casts
WrittenFrame(f, warped_frame, w, h) ==
  IF f = "lucas_kanade_faster_video_stabilization"
  THEN astype_uint8(resize(warped_frame, w, h))
  ELSE resize_uint8(astype_uint8(warped_frame), w, h)

\* if first_frame_gray.shape != IMAGE_SIZE: cv2.resize(first_frame_gray, IMAGE_SIZE)
FirstFrameResized(frame, size) ==
  IF Shape(frame) # size THEN resize_uint8(frame, size[1], size[2]) ELSE frame

\* the fields a refiner may return for two frames of one shape: an estimator
\* that solves no pixel, or is never called, leaves the zeros; a window of
\* even size fails to reshape; the one-pixel window's A^T A has rank one and
\* every solve falls back to (0, 0); otherwise the fields vary over the frame
RefinerResults(shape, window_size, max_iter) ==
  LET boundary == window_size \div 2
      solved == /\ Interior(shape[1], boundary) # {}
                /\ Interior(shape[2], boundary) # {}
      zeros == [u |-> ZeroField(shape), v |-> ZeroField(shape)]
  IN  IF max_iter = 0 \/ ~solved \/ window_size = 1 THEN {zeros}
      ELSE IF window_size % 2 = 0 THEN {Raised}
      ELSE {[u |-> Field(shape[1], shape[2], a, 0),
             v |-> Field(shape[1], shape[2], 0, -2 * a)] : a \in {0, MaxShift}}

\* the k-th frame of a video that shows two pictures in turn
DriverFrame(k, h, w) ==
  IF k % 2 = 1 THEN MottledImage(h, w)
  ELSE TileImage(h, w, [i \in 0..1 |-> [j \in 0..1 |-> IF i = j THEN 1 ELSE 0]])

DriverShapes == {<<MaxDim, MaxDim + 1>>}

\* the reads of a capture of frame_count frames, none or MaxFrames: the first
\* frame's and one for each round of the loop, any of which may fail
DriverArgs(shapes) ==
  UNION {
    [cap : {[k \in 1..(n + 1) |-> IF k \in ok THEN DriverFrame(k, s[1], s[2]) ELSE None] :
              ok \in SUBSET (1..(n + 1))},
     frame_count : {n},
     window_size : 1..MaxWin,
     max_iter : {0, MaxIter},
     num_levels : 0..1] :
    s \in shapes, n \in {0, MaxFrames}}

InitDriver ==
  /\ pc = "call"
  /\ fn = "none"
  /\ arg \in DriverArgs(DriverShapes)
  /\ loc = None
  /\ ret = None

\* the code up to the loop: the first frame written, the working size, the
\* zero fields; cvtColor raises on the None of a failed first read
Open(f) ==
  /\ pc = "call"
  /\ fn = "none"
  /\ fn' = f
  /\ UNCHANGED <<arg, ret>>
  /\ LET first_frame == arg.cap[1]
     IN  IF first_frame = None
         THEN pc' = "raise" /\ loc' = loc
         ELSE LET size == IMAGE_SIZE(Shape(first_frame), arg.num_levels)
                  first_frame_gray == FirstFrameResized(first_frame, size)
                  u == ZeroField(Shape(first_frame_gray))
                  v == ZeroField(Shape(first_frame_gray))
              IN  /\ pc' = "loop"
                  /\ loc' = [w |-> first_frame.w, h |-> first_frame.h,
                             IMAGE_SIZE |-> size,
                             boarder |-> arg.window_size \div 2,
                             prev_frame |-> first_frame_gray,
                             prev_u |-> u, prev_v |-> v,
                             u |-> u, v |-> v,
                             i |-> 0,
                             out |-> <<first_frame>>,
                             calls |-> <<>>,
                             flows |-> <<>>]

LucasKanadeVideoStabilization == Open("lucas_kanade_video_stabilization")

LucasKanadeFasterVideoStabilization == Open("lucas_kanade_faster_video_stabilization")

\* a round of the loop whose read succeeds
ReadFrame ==
  /\ pc = "loop"
  /\ loc.i < arg.frame_count
  /\ arg.cap[loc.i + 2] # None
  /\ UNCHANGED <<fn, arg, ret>>
  /\ LET grey_cur_frame == arg.cap[loc.i + 2]
         grey_cur_frame_resized ==
           resize_uint8(grey_cur_frame, loc.IMAGE_SIZE[1], loc.IMAGE_SIZE[2])
     IN  \E flow \in RefinerResults(Shape(loc.prev_frame), arg.window_size,
                                    arg.max_iter) :
           IF flow = Raised
           THEN /\ pc' = "raise"
                /\ loc' = [loc EXCEPT
                     !.calls = Append(@, <<loc.prev_frame, grey_cur_frame_resized>>)]
           ELSE
           LET rows == Slice(flow.u.h, loc.boarder)
               cols == Slice(flow.u.w, loc.boarder)
               mean_u == Mean(flow.u, rows, cols)
               mean_v == Mean(flow.v, rows, cols)
               u == Accumulate(Assign(flow.u, rows, cols, mean_u), loc.prev_u)
               v == Accumulate(Assign(flow.v, rows, cols, mean_v), loc.prev_v)
           IN  \E diag \in Triangulations(grey_cur_frame_resized,
                             WarpField(grey_cur_frame_resized, u, v)) :
                 LET warped_frame == warp_image(grey_cur_frame_resized, u, v, diag)
                     next_frame == WrittenFrame(fn, warped_frame, loc.w, loc.h)
                 IN  /\ pc' = "loop"
                     /\ loc' = [loc EXCEPT
                          !.u = u, !.v = v,
                          !.prev_frame = grey_cur_frame_resized,
                          !.prev_u = u, !.prev_v = v,
                          !.i = @ + 1,
                          !.out = Append(@, next_frame),
                          !.calls = Append(@, <<loc.prev_frame, grey_cur_frame_resized>>),
                          !.flows = Append(@, flow)]

\* a round of the loop whose read fails: if rval is False the body is skipped
SkipFrame ==
  /\ pc = "loop"
  /\ loc.i < arg.frame_count
  /\ arg.cap[loc.i + 2] = None
  /\ pc' = "loop"
  /\ loc' = [loc EXCEPT !.i = @ + 1]
  /\ UNCHANGED <<fn, arg, ret>>

\* the loop is over: the captures are released
Release ==
  /\ pc = "loop"
  /\ loc.i = arg.frame_count
  /\ pc' = "return"
  /\ ret' = loc.out
  /\ UNCHANGED <<fn, arg, loc>>

NextDriver ==
  \/ LucasKanadeVideoStabilization
  \/ LucasKanadeFasterVideoStabilization
  \/ ReadFrame
  \/ SkipFrame
  \/ Release

SpecDriver == InitDriver /\ [][NextDriver]_vars

(***************************************************************************)
(* The drivers' accumulated field.                                         *)
(***************************************************************************)
InDriver ==
  /\ fn \in {"lucas_kanade_video_stabilization",
             "lucas_kanade_faster_video_stabilization"}
  /\ pc \in {"loop", "return"}

\* a read of the loop has succeeded and its frame has been written
Processed == InDriver /\ Len(loc.flows) >= 1

\* the mean of a over the region that leaves out floor(window_size / 2) rows
\* and columns on each side
InteriorMean(a, window_size) ==
  Mean(a, Interior(a.h, window_size \div 2), Interior(a.w, window_size \div 2))

\* the frames among the first k reads, at the working size
RECURSIVE FramesRead(_)
FramesRead(k) ==
  IF k = 0 THEN <<>>
  ELSE IF arg.cap[k] = None THEN FramesRead(k - 1)
  ELSE Append(FramesRead(k - 1),
              resize_uint8(arg.cap[k], loc.IMAGE_SIZE[1], loc.IMAGE_SIZE[2]))

\* the frame written last is the frame read last, warped by (u, v)
WarpedBy(u, v) ==
  LET frames == FramesRead(loc.i + 1)
      frame == frames[Len(frames)]
      written == loc.out[Len(loc.out)]
  IN  \E diag \in Triangulations(frame, WarpField(frame, u, v)) :
        written = WrittenFrame(fn, warp_image(frame, u, v, diag), loc.w, loc.h)

\* the next read of the loop fails
ReadFails ==
  /\ InDriver
  /\ pc = "loop"
  /\ loc.i < arg.frame_count
  /\ arg.cap[loc.i + 2] = None

====
